---- MODULE Spec2Model ----
(***************************************************************************)
(* The POST /notification handler of src/main.go.  Every request runs the  *)
(* handler in its own goroutine; the goroutines share notificationsMap,    *)
(* batchAmount and the two injected collaborators (emailService,           *)
(* notificationRepo).  A handler is modelled step by step: each access to  *)
(* the shared map and each call of / return from a collaborator is one     *)
(* action, the goroutine-local code between two of them belongs to the     *)
(* action it follows.                                                       *)
(*                                                                         *)
(* Strings that the code concatenates (email bodies) are sequences of      *)
(* one-character strings; strings that are only compared or passed on are  *)
(* TLA+ strings.                                                           *)
(***************************************************************************)
EXTENDS Integers, Sequences, FiniteSets, TLC

\* ------------------------------------------------------------- bounds
MaxRequests == 3        \* requests the transport delivers in one behaviour
MaxBatchAmount == 2     \* largest configured batchAmount

Procs == {1, 2}         \* goroutines that may run the handler concurrently
Keys == {"promo", "news"}

\* ------------------------------------------------ types of src/main.go
Email == "email"
System == "system"
Instant == "instant"
Batch == "batch"

\* The zero value of EmailMetadata (what `var emailMetadata EmailMetadata`
\* holds before json.Unmarshal fills it).
ZeroEmailMetadata == [EmailAddress |-> "", EmailBody |-> <<>>]

\* metadata payloads (json.RawMessage) the transport may hand over
EmailObject(a, b) == [kind |-> "object", emailAddress |-> a, emailBody |-> b]
SystemObject == [kind |-> "object", uuid |-> "u1", body |-> <<"s">>]
EmptyObject == [kind |-> "object"]
ScalarPayload == [kind |-> "scalar"]     \* valid JSON, not an object: 7, "x", [..]
AbsentPayload == [kind |-> "absent"]     \* no "metadata" member: RawMessage is nil

EmailPayloads == {EmailObject("a@x.com", <<"h", "i">>), EmailObject("b@x.com", <<"b", "y", "e">>)}

Notification(k, r, t, m) ==
    [Date |-> "d", EventName |-> k, DeliveryRoute |-> r, NotificationType |-> t, Metadata |-> m]

\* The request bodies the transport delivers that ShouldBindJSON accepts.
Requests ==
    {Notification(k, Email, Batch, m) : k \in Keys, m \in EmailPayloads}
    \cup {Notification("promo", Email, Instant, m) : m \in {EmailObject("a@x.com", <<"h", "i">>), EmptyObject, AbsentPayload}}
    \cup {Notification("promo", Email, "weekly", EmailObject("a@x.com", <<"h", "i">>)),
          Notification("promo", Email, Batch, ScalarPayload),
          Notification("promo", System, Instant, EmailObject("a@x.com", <<"h", "i">>)),
          Notification("promo", "", "weekly", SystemObject)}
    \cup {Notification("promo", r, t, SystemObject) : r \in {System, "sms"}, t \in {Instant, Batch, "weekly"}}

NoNotification == Notification("", "", "", AbsentPayload)

VARIABLES
    batchAmount,        \* var batchAmount int
    notificationsMap,   \* map[string][]EmailMetadata; an absent key reads as the nil (empty) slice
    pc,                 \* where each goroutine stands in the handler
    notification,       \* the handler's local `notification`
    emailMetadata,      \* the handler's local `emailMetadata`
    slice,              \* the operand notificationsMap[EventName] read for append on line 89
    emailBody,          \* the handler's local `emailBody`
    crashed,            \* the Go runtime ended the process (fatal error: concurrent map access)
    \* history variables
    nreq,               \* requests delivered so far
    sendCalls,          \* per goroutine: the SendEmail calls of its current request
    sendResult,         \* per goroutine: what the last SendEmail call returned
    insertCalls,        \* per goroutine: the Insert calls of its current request
    insertResult,       \* per goroutine: what the last Insert call returned
    mapWrites,          \* per goroutine: the keys its current request has assigned in notificationsMap
    responses,          \* per goroutine: the responses written for its current request
    arrived,            \* per key: the elements appended on line 89, in the order of the appends
    nflush,             \* per key: how many SendEmail calls line 100 has made
    nfail               \* per key: how many of those calls returned an error

vars == <<batchAmount, notificationsMap, pc, notification, emailMetadata, slice, emailBody,
          crashed, nreq, sendCalls, sendResult, insertCalls, insertResult, mapWrites, responses,
          arrived, nflush, nfail>>

locals == <<notification, emailMetadata, slice, emailBody>>
history == <<sendCalls, sendResult, insertCalls, insertResult, mapWrites, arrived, nflush, nfail>>

\* ----------------------------------------------------------- helpers

\* json.Unmarshal(notification.Metadata, &emailMetadata): fills the fields the
\* object has, leaves the others at their zero value, ignores unknown
\* members; fails on input that is absent or not an object.
UnmarshalEmail(m) ==
    IF m.kind = "object"
    THEN [err |-> FALSE,
          val |-> [EmailAddress |-> IF "emailAddress" \in DOMAIN m THEN m.emailAddress ELSE "",
                   EmailBody |-> IF "emailBody" \in DOMAIN m THEN m.emailBody ELSE <<>>]]
    ELSE [err |-> TRUE, val |-> ZeroEmailMetadata]

\* The loop of lines 94-97: emailBody += email.EmailBody + "\n"
RECURSIVE JoinFrom(_, _, _)
JoinFrom(q, i, acc) ==
    IF i > Len(q) THEN acc ELSE JoinFrom(q, i + 1, acc \o q[i].EmailBody \o <<"\n">>)

JoinBodies(q) == JoinFrom(q, 1, <<>>)

\* c.JSON(status, gin.H{...})
Response(code, msg) == [code |-> code, msg |-> msg]
OK == Response(200, "Notification received")
FailedToSend == Response(500, "Failed to send email")
FailedToInsert == Response(500, "Failed to insert notification")
InvalidType == Response(400, "Invalid notification type")
InvalidMetadata == Response(400, "Invalid email metadata")
BindError == Response(400, "bind")
Recovered == Response(500, "")       \* gin.Default()'s Recovery middleware after a panic

InProgress(p) == pc[p] \notin {"idle", "done"}

\* c.JSON(...) followed by the handler's return: the working locals
\* `emailBody` and the append operand go out of scope.
Respond(p, r) ==
    /\ responses' = [responses EXCEPT ![p] = Append(@, r)]
    /\ pc' = [pc EXCEPT ![p] = "done"]
    /\ slice' = [slice EXCEPT ![p] = <<>>]
    /\ emailBody' = [emailBody EXCEPT ![p] = <<>>]

\* The handler goes on to the statement at `next`.
Goto(p, next) ==
    /\ pc' = [pc EXCEPT ![p] = next]
    /\ UNCHANGED <<responses, slice, emailBody>>

\* ------------------------------------------------------------- Init
Init ==
    /\ batchAmount \in 0..MaxBatchAmount
    /\ notificationsMap = [k \in Keys |-> <<>>]
    /\ pc = [p \in Procs |-> "idle"]
    /\ notification = [p \in Procs |-> NoNotification]
    /\ emailMetadata = [p \in Procs |-> ZeroEmailMetadata]
    /\ slice = [p \in Procs |-> <<>>]
    /\ emailBody = [p \in Procs |-> <<>>]
    /\ crashed = FALSE
    /\ nreq = 0
    /\ sendCalls = [p \in Procs |-> <<>>]
    /\ sendResult = [p \in Procs |-> "none"]
    /\ insertCalls = [p \in Procs |-> <<>>]
    /\ insertResult = [p \in Procs |-> "none"]
    /\ mapWrites = [p \in Procs |-> <<>>]
    /\ responses = [p \in Procs |-> <<>>]
    /\ arrived = [k \in Keys |-> <<>>]
    /\ nflush = [k \in Keys |-> 0]
    /\ nfail = [k \in Keys |-> 0]

\* ---------------------------------------------------------- actions

\* A goroutine starts the handler on a fresh request: the locals and the
\* per-request history start over.
Begin(p, n) ==
    /\ ~crashed
    /\ ~InProgress(p)
    /\ nreq < MaxRequests
    /\ nreq' = nreq + 1
    /\ notification' = [notification EXCEPT ![p] = n]
    /\ slice' = [slice EXCEPT ![p] = <<>>]
    /\ emailBody' = [emailBody EXCEPT ![p] = <<>>]
    /\ sendCalls' = [sendCalls EXCEPT ![p] = <<>>]
    /\ sendResult' = [sendResult EXCEPT ![p] = "none"]
    /\ insertCalls' = [insertCalls EXCEPT ![p] = <<>>]
    /\ insertResult' = [insertResult EXCEPT ![p] = "none"]
    /\ mapWrites' = [mapWrites EXCEPT ![p] = <<>>]
    /\ UNCHANGED <<batchAmount, notificationsMap, crashed, arrived, nflush, nfail>>

\* Lines 67-71 with a body ShouldBindJSON rejects: 400 and return.
ReceiveMalformed(p) ==
    /\ Begin(p, NoNotification)
    /\ UNCHANGED emailMetadata
    /\ responses' = [responses EXCEPT ![p] = <<BindError>>]
    /\ pc' = [pc EXCEPT ![p] = "done"]

\* Variant of RouteTarget: the system route handles only the known types.
RouteTargetTypedSystem(n) ==
    IF n.DeliveryRoute = Email
    THEN IF UnmarshalEmail(n.Metadata).err THEN "invalid"
         ELSE IF n.NotificationType = Instant THEN "L83"
         ELSE IF n.NotificationType = Batch THEN "L89r"
         ELSE "L120"
    ELSE IF n.DeliveryRoute = System /\ n.NotificationType \in {Instant, Batch} THEN "L111"
    ELSE "unroutable"

\* Variant of RouteTarget: the outer switch has no default case.
RouteTargetNoDefault(n) ==
    IF n.DeliveryRoute = Email
    THEN IF UnmarshalEmail(n.Metadata).err THEN "invalid"
         ELSE IF n.NotificationType = Instant THEN "L83"
         ELSE IF n.NotificationType = Batch THEN "L89r"
         ELSE "L120"
    ELSE IF n.DeliveryRoute = System THEN "L111"
    ELSE "L120"

\* Where the decode of lines 75-79 and the two switches (lines 73, 81, 109,
\* 115) lead: the next statement, or the response the handler returns with.
\* An email notification whose type matches no case of the inner switch
\* falls through to line 120.
RouteTarget(n) ==
    IF n.DeliveryRoute = Email
    THEN IF UnmarshalEmail(n.Metadata).err THEN "invalid"
         ELSE IF n.NotificationType = Instant THEN "L83"
         ELSE IF n.NotificationType = Batch THEN "L89r"
         ELSE "L120"
    ELSE IF n.DeliveryRoute = System THEN "L111"
    ELSE "unroutable"

\* Lines 67-81 and 115-120 with a body ShouldBindJSON accepts: bind, decode
\* and the two switches, all on the goroutine's own locals.
Receive(p, n) ==
    /\ Begin(p, n)
    /\ emailMetadata' = [emailMetadata EXCEPT ![p] =
           IF n.DeliveryRoute = Email THEN UnmarshalEmail(n.Metadata).val ELSE ZeroEmailMetadata]
    /\ LET t == RouteTarget(n)
       IN /\ responses' = [responses EXCEPT ![p] =
                 CASE t = "invalid" -> <<InvalidMetadata>>
                   [] t = "unroutable" -> <<InvalidType>>
                   [] t = "L120" -> <<OK>>
                   [] OTHER -> <<>>]
          /\ pc' = [pc EXCEPT ![p] = IF t \in {"invalid", "unroutable", "L120"} THEN "done" ELSE t]

\* Line 83: the call of emailService.SendEmail on the instant path.
InstantSendCall(p) ==
    /\ ~crashed
    /\ pc[p] = "L83"
    /\ sendCalls' = [sendCalls EXCEPT ![p] =
           Append(@, [address |-> emailMetadata[p].EmailAddress, body |-> emailMetadata[p].EmailBody])]
    /\ Goto(p, "L83wait")
    /\ UNCHANGED <<batchAmount, notificationsMap, crashed, nreq, notification, emailMetadata,
                   sendResult, insertCalls, insertResult, mapWrites, arrived, nflush, nfail>>

\* Variant of InstantOutcome: the error of SendEmail is dropped.
InstantOutcomeIgnoringError(err) == OK

\* Lines 84-86 and 120: what the handler answers after SendEmail returned.
InstantOutcome(err) == IF err THEN FailedToSend ELSE OK

\* Lines 83-86 and 120: SendEmail returns; an error answers 500, nil answers 200.
InstantSendReturn(p, err) ==
    /\ ~crashed
    /\ pc[p] = "L83wait"
    /\ sendResult' = [sendResult EXCEPT ![p] = IF err THEN "err" ELSE "ok"]
    /\ Respond(p, InstantOutcome(err))
    /\ UNCHANGED <<batchAmount, notificationsMap, crashed, nreq, notification, emailMetadata,
                   sendCalls, insertCalls, insertResult, mapWrites, arrived, nflush, nfail>>

\* Line 89, right-hand side: read notificationsMap[EventName].
BatchRead(p) ==
    /\ ~crashed
    /\ pc[p] = "L89r"
    /\ slice' = [slice EXCEPT ![p] = notificationsMap[notification[p].EventName]]
    /\ pc' = [pc EXCEPT ![p] = "L89w"]
    /\ UNCHANGED <<batchAmount, notificationsMap, crashed, nreq, notification, emailMetadata,
                   emailBody, responses, history>>

\* Line 89, assignment: store append(operand, emailMetadata) under EventName.
BatchWrite(p) ==
    /\ ~crashed
    /\ pc[p] = "L89w"
    /\ notificationsMap' = [notificationsMap EXCEPT ![notification[p].EventName] =
           Append(slice[p], emailMetadata[p])]
    /\ arrived' = [arrived EXCEPT ![notification[p].EventName] = Append(@, emailMetadata[p])]
    /\ mapWrites' = [mapWrites EXCEPT ![p] = Append(@, notification[p].EventName)]
    /\ Goto(p, "L92")
    /\ UNCHANGED <<batchAmount, crashed, nreq, notification, emailMetadata,
                   sendCalls, sendResult, insertCalls, insertResult, nflush, nfail>>

\* Variant of ThresholdReached: the test is "at least" instead of equality.
ThresholdReachedAtLeast(len) == len >= batchAmount

\* The threshold test of line 92.
ThresholdReached(len) == len = batchAmount

\* Line 92; when the test fails the handler goes on to line 120.
BatchCheck(p) ==
    /\ ~crashed
    /\ pc[p] = "L92"
    /\ IF ThresholdReached(Len(notificationsMap[notification[p].EventName]))
       THEN Goto(p, "L95")
       ELSE Respond(p, OK)
    /\ UNCHANGED <<batchAmount, notificationsMap, crashed, nreq, notification, emailMetadata, history>>

\* Lines 94-97: join the bodies of the slice now stored under EventName.
BatchJoin(p) ==
    /\ ~crashed
    /\ pc[p] = "L95"
    /\ emailBody' = [emailBody EXCEPT ![p] = JoinBodies(notificationsMap[notification[p].EventName])]
    /\ pc' = [pc EXCEPT ![p] = "L100"]
    /\ UNCHANGED <<batchAmount, notificationsMap, crashed, nreq, notification, emailMetadata,
                   slice, responses, history>>

\* Variant of FlushAddress: the address of the element that triggered the flush.
FlushAddressOfLast(q) == q[Len(q)].EmailAddress

\* The address line 100 passes to SendEmail.
FlushAddress(q) == q[1].EmailAddress

\* Line 100: read element 0 of the stored slice and call SendEmail.
BatchSendCall(p) ==
    /\ ~crashed
    /\ pc[p] = "L100"
    /\ LET k == notification[p].EventName
           call == [address |-> FlushAddress(notificationsMap[k]), body |-> emailBody[p]]
       IN /\ notificationsMap[k] # <<>>
          /\ sendCalls' = [sendCalls EXCEPT ![p] = Append(@, call)]
          /\ nflush' = [nflush EXCEPT ![k] = @ + 1]
    /\ Goto(p, "L100wait")
    /\ UNCHANGED <<batchAmount, notificationsMap, crashed, nreq, notification, emailMetadata,
                   sendResult, insertCalls, insertResult, mapWrites, arrived, nfail>>

\* Line 100 when another goroutine has emptied the slice since line 92: the
\* index expression panics and gin's Recovery middleware answers 500.
BatchSendPanic(p) ==
    /\ ~crashed
    /\ pc[p] = "L100"
    /\ notificationsMap[notification[p].EventName] = <<>>
    /\ Respond(p, Recovered)
    /\ UNCHANGED <<batchAmount, notificationsMap, crashed, nreq, notification, emailMetadata, history>>

\* Variant of BatchSendReturn: a failed send is tried again.
BatchSendReturnRetrying(p, err) ==
    /\ ~crashed
    /\ pc[p] = "L100wait"
    /\ sendResult' = [sendResult EXCEPT ![p] = IF err THEN "err" ELSE "ok"]
    /\ Goto(p, IF err THEN "L100" ELSE "L106")
    /\ UNCHANGED <<batchAmount, notificationsMap, crashed, nreq, notification, emailMetadata,
                   sendCalls, insertCalls, insertResult, mapWrites, arrived, nflush, nfail>>

\* Lines 100-103: SendEmail returns on the batch path; an error answers 500
\* and returns, nil goes on to line 106.
BatchSendReturn(p, err) ==
    /\ ~crashed
    /\ pc[p] = "L100wait"
    /\ sendResult' = [sendResult EXCEPT ![p] = IF err THEN "err" ELSE "ok"]
    /\ IF err
       THEN /\ Respond(p, FailedToSend)
            /\ nfail' = [nfail EXCEPT ![notification[p].EventName] = @ + 1]
       ELSE /\ Goto(p, "L106")
            /\ UNCHANGED nfail
    /\ UNCHANGED <<batchAmount, notificationsMap, crashed, nreq, notification, emailMetadata,
                   sendCalls, insertCalls, insertResult, mapWrites, arrived, nflush>>

\* Variant of BatchClear: line 106 replaces the whole map by an empty one.
BatchClearAll(p) ==
    /\ ~crashed
    /\ pc[p] = "L106"
    /\ notificationsMap' = [k \in Keys |-> <<>>]
    /\ mapWrites' = [mapWrites EXCEPT ![p] = Append(@, notification[p].EventName)]
    /\ Respond(p, OK)
    /\ UNCHANGED <<batchAmount, crashed, nreq, notification, emailMetadata,
                   sendCalls, sendResult, insertCalls, insertResult, arrived, nflush, nfail>>

\* Lines 106 and 120: store the empty slice under EventName and answer 200.
BatchClear(p) ==
    /\ ~crashed
    /\ pc[p] = "L106"
    /\ notificationsMap' = [notificationsMap EXCEPT ![notification[p].EventName] = <<>>]
    /\ mapWrites' = [mapWrites EXCEPT ![p] = Append(@, notification[p].EventName)]
    /\ Respond(p, OK)
    /\ UNCHANGED <<batchAmount, crashed, nreq, notification, emailMetadata,
                   sendCalls, sendResult, insertCalls, insertResult, arrived, nflush, nfail>>

\* Line 111: the call of notificationRepo.Insert with the whole notification.
InsertCall(p) ==
    /\ ~crashed
    /\ pc[p] = "L111"
    /\ insertCalls' = [insertCalls EXCEPT ![p] = Append(@, notification[p])]
    /\ Goto(p, "L111wait")
    /\ UNCHANGED <<batchAmount, notificationsMap, crashed, nreq, notification, emailMetadata,
                   sendCalls, sendResult, insertResult, mapWrites, arrived, nflush, nfail>>

\* Lines 111-114 and 120: Insert returns; an error answers 500, nil answers 200.
InsertReturn(p, err) ==
    /\ ~crashed
    /\ pc[p] = "L111wait"
    /\ insertResult' = [insertResult EXCEPT ![p] = IF err THEN "err" ELSE "ok"]
    /\ Respond(p, IF err THEN FailedToInsert ELSE OK)
    /\ UNCHANGED <<batchAmount, notificationsMap, crashed, nreq, notification, emailMetadata,
                   sendCalls, sendResult, insertCalls, mapWrites, arrived, nflush, nfail>>

\* The map is accessed without synchronisation (line 46): when two goroutines
\* are in map operations at the same time and one of them writes, the Go
\* runtime may end the process ("fatal error: concurrent map writes" /
\* "concurrent map read and map write").  Nothing runs afterwards.
MapReadPcs == {"L89r", "L92", "L95", "L100"}
MapWritePcs == {"L89w", "L106"}

MapRace ==
    /\ ~crashed
    /\ \E p, q \in Procs :
          /\ p # q
          /\ pc[p] \in MapWritePcs
          /\ pc[q] \in MapReadPcs \cup MapWritePcs
    /\ crashed' = TRUE
    /\ UNCHANGED <<batchAmount, notificationsMap, pc, nreq, locals, responses, history>>

\* ---------------------------------------------------- specifications
Step(p) ==
    \/ InstantSendCall(p)
    \/ \E err \in BOOLEAN : InstantSendReturn(p, err)
    \/ BatchRead(p)
    \/ BatchWrite(p)
    \/ BatchCheck(p)
    \/ BatchJoin(p)
    \/ BatchSendCall(p)
    \/ \E err \in BOOLEAN : BatchSendReturn(p, err)
    \/ BatchClear(p)
    \/ InsertCall(p)
    \/ \E err \in BOOLEAN : InsertReturn(p, err)

\* Requests are handled concurrently, one goroutine each.
Next ==
    \/ \E p \in Procs, n \in Requests : Receive(p, n)
    \/ \E p \in Procs : ReceiveMalformed(p)
    \/ \E p \in Procs : Step(p)
    \/ \E p \in Procs : BatchSendPanic(p)
    \/ MapRace

Spec == Init /\ [][Next]_vars

\* Requests arrive one after another: a request is delivered only when no
\* handler is running.
Quiescent == \A q \in Procs : ~InProgress(q)

SeqNext ==
    \/ \E p \in Procs, n \in Requests : Quiescent /\ Receive(p, n)
    \/ \E p \in Procs : Quiescent /\ ReceiveMalformed(p)
    \/ \E p \in Procs : Step(p)

SeqSpec == Init /\ [][SeqNext]_vars

\* A notification the handler takes to the batch path (lines 73-81, 87).
IsBatchEmail(n) ==
    n.DeliveryRoute = Email /\ n.NotificationType = Batch /\ ~UnmarshalEmail(n.Metadata).err

\* Requests for the same EventName arrive one after another, requests for
\* different EventNames (and requests off the batch path) run concurrently:
\* no other handler is on the batch path of n's EventName.
KeyFree(p, n) ==
    IsBatchEmail(n) =>
        \A q \in Procs \ {p} :
            ~(InProgress(q) /\ IsBatchEmail(notification[q])
                            /\ notification[q].EventName = n.EventName)

KeyNext ==
    \/ \E p \in Procs, n \in Requests : KeyFree(p, n) /\ Receive(p, n)
    \/ \E p \in Procs : ReceiveMalformed(p)
    \/ \E p \in Procs : Step(p)
    \/ MapRace

KeySpec == Init /\ [][KeyNext]_vars


\* ------------------------------------------------------------ claims

\* The bodies of `elems`, each followed by a newline, in order.
RECURSIVE NewlineTerminated(_)
NewlineTerminated(elems) ==
    IF elems = <<>> THEN <<>>
    ELSE Head(elems).EmailBody \o <<"\n">> \o NewlineTerminated(Tail(elems))

\* Goroutine p has appended for key k and not yet reached the call on line 100.
BeforeSend(p, k) ==
    IsBatchEmail(notification[p]) /\ notification[p].EventName = k /\ pc[p] \in {"L92", "L95", "L100"}

\* Goroutine p has made the call on line 100 for key k and not yet answered.
Sending(p, k) ==
    IsBatchEmail(notification[p]) /\ notification[p].EventName = k /\ pc[p] \in {"L100wait", "L106"}

\* C1: with batchAmount = N >= 1, dispatches run one after another and no
\* send of key k failed so far: the sender has been called on the batch path
\* once per completed group of N appended elements of k and not otherwise
\* (so the first N-1 dispatches of a group call no sender and the Nth calls
\* it exactly once), and the call of the Nth carries the N bodies in arrival
\* order, each followed by a newline, and the address of the 1st of the N.
C1_NthDispatchFlushesOnce ==
    \A k \in Keys :
        (batchAmount >= 1 /\ nfail[k] = 0) =>
            LET N == batchAmount
                n == Len(arrived[k])
            IN /\ nflush[k] = IF n % N = 0 /\ (\E p \in Procs : BeforeSend(p, k))
                              THEN (n \div N) - 1
                              ELSE n \div N
               /\ \A p \in Procs :
                     /\ BeforeSend(p, k) => sendCalls[p] = <<>>
                     /\ Sending(p, k) =>
                           /\ n % N = 0
                           /\ sendCalls[p] =
                                 <<[address |-> arrived[k][n - N + 1].EmailAddress,
                                    body |-> NewlineTerminated(SubSeq(arrived[k], n - N + 1, n))]>>

\* C1 witness: batchAmount = 2, ("a@x.com", "hi") then ("b@x.com", "bye") for
\* "promo": the second dispatch has called SendEmail("a@x.com", "hi\nbye\n")
\* once, the sender succeeded and the dispatch answered 200.
C1_Witness ==
    /\ batchAmount = 2
    /\ arrived["promo"] = <<[EmailAddress |-> "a@x.com", EmailBody |-> <<"h", "i">>],
                            [EmailAddress |-> "b@x.com", EmailBody |-> <<"b", "y", "e">>]>>
    /\ nflush["promo"] = 1
    /\ \E p \in Procs :
          /\ pc[p] = "done"
          /\ sendCalls[p] = <<[address |-> "a@x.com", body |-> <<"h", "i", "\n", "b", "y", "e", "\n">>]>>
          /\ sendResult[p] = "ok"
          /\ responses[p] = <<OK>>


\* C2: after the dispatch that brought the queue of k to batchAmount (a
\* flush) the queue of k is empty, and after the next email+batch dispatch
\* for k it has length exactly 1, in every flush cycle.  At rest, with the
\* dispatches run one after another: when the elements appended for k so far
\* make up whole groups of batchAmount the queue is empty, and when one more
\* has been appended its length is 1.
C2_EmptyAfterFlushThenOne ==
    \A k \in Keys :
        (batchAmount >= 1 /\ Quiescent /\ nflush[k] >= 1) =>
            /\ Len(arrived[k]) % batchAmount = 0 => notificationsMap[k] = <<>>
            /\ Len(arrived[k]) % batchAmount = 1 => Len(notificationsMap[k]) = 1

\* C3: whenever no dispatch is in progress, every queue holds at most
\* batchAmount - 1 elements (batchAmount >= 1), whether the sender succeeded
\* or failed.
C3_QueueBelowThresholdAtRest ==
    (Quiescent /\ ~crashed /\ batchAmount >= 1) =>
        \A k \in Keys : Len(notificationsMap[k]) <= batchAmount - 1

\* C4: the step in which SendEmail returns an error to a flushing dispatch
\* answers 500 "Failed to send email" and leaves the queue of its key empty.
C4_FailedFlushLosesBatch ==
    [][\A p \in Procs :
          (pc[p] = "L100wait" /\ pc'[p] = "done" /\ sendResult'[p] = "err") =>
              /\ responses'[p] = <<FailedToSend>>
              /\ notificationsMap'[notification[p].EventName] = <<>>]_vars

\* C5: concurrent email+batch dispatches for one key lose no update: once all
\* have finished and none triggered a flush, the queue of the key has grown
\* by one per dispatch and holds every appended element (stated for the
\* positive batchAmount the configuration asks for).
C5_NoLostUpdate ==
    \A k \in Keys :
        (batchAmount >= 1 /\ Quiescent /\ ~crashed /\ nflush[k] = 0) =>
            /\ Len(notificationsMap[k]) = Len(arrived[k])
            /\ \A i \in 1..Len(arrived[k]) :
                  \E j \in 1..Len(notificationsMap[k]) : notificationsMap[k][j] = arrived[k][i]

\* C6: under every interleaving at most one flush fires per batchAmount
\* accepted elements of a key.
C6_OneFlushPerBatch ==
    \A k \in Keys :
        batchAmount >= 1 => nflush[k] * batchAmount <= Len(arrived[k])

IsInstantEmail(n) ==
    n.DeliveryRoute = Email /\ n.NotificationType = Instant /\ ~UnmarshalEmail(n.Metadata).err

\* C7: a finished email+instant dispatch whose metadata decodes has called
\* the sender exactly once, with the decoded address and body, and answered
\* 200 if the sender returned no error and 500 "Failed to send email"
\* otherwise; before its call it has called nothing.
C7_InstantSendsOnce ==
    \A p \in Procs :
        IsInstantEmail(notification[p]) =>
            /\ pc[p] = "L83" => sendCalls[p] = <<>>
            /\ pc[p] = "done" =>
                  /\ sendCalls[p] = <<[address |-> UnmarshalEmail(notification[p].Metadata).val.EmailAddress,
                                      body |-> UnmarshalEmail(notification[p].Metadata).val.EmailBody]>>
                  /\ sendResult[p] \in {"ok", "err"}
                  /\ responses[p] = <<IF sendResult[p] = "ok" THEN OK ELSE FailedToSend>>

\* C7 witness: one instant dispatch delivered "hi" to "a@x.com" and answered
\* 200, another one's send failed and it answered 500.
C7_Witness ==
    \E p, q \in Procs :
        /\ pc[p] = "done" /\ pc[q] = "done"
        /\ IsInstantEmail(notification[p]) /\ IsInstantEmail(notification[q])
        /\ sendCalls[p] = <<[address |-> "a@x.com", body |-> <<"h", "i">>]>>
        /\ sendResult[p] = "ok" /\ responses[p] = <<OK>>
        /\ sendResult[q] = "err" /\ responses[q] = <<FailedToSend>>

\* C8: a finished dispatch with deliveryRoute = system, whatever its
\* notificationType, has called Insert exactly once with the whole
\* notification, called no sender and written no queue, and answered 200 if
\* Insert succeeded and 500 "Failed to insert notification" otherwise.
C8_SystemInsertsOnce ==
    \A p \in Procs :
        (pc[p] = "done" /\ notification[p].DeliveryRoute = System) =>
            /\ insertCalls[p] = <<notification[p]>>
            /\ sendCalls[p] = <<>>
            /\ mapWrites[p] = <<>>
            /\ insertResult[p] \in {"ok", "err"}
            /\ responses[p] = <<IF insertResult[p] = "ok" THEN OK ELSE FailedToInsert>>

\* C8 witness: a system notification of an unrecognized type was inserted and
\* answered 200; the insert of one of type batch failed and it answered 500.
C8_Witness ==
    \E p, q \in Procs :
        /\ pc[p] = "done" /\ pc[q] = "done"
        /\ notification[p].DeliveryRoute = System /\ notification[p].NotificationType = "weekly"
        /\ insertCalls[p] = <<notification[p]>> /\ responses[p] = <<OK>>
        /\ notification[q].DeliveryRoute = System /\ notification[q].NotificationType = Batch
        /\ insertResult[q] = "err" /\ responses[q] = <<FailedToInsert>>

\* C9: a finished dispatch with deliveryRoute = email and a notificationType
\* that is neither instant nor batch has answered 400, sent nothing and
\* written no queue.
C9_UnknownEmailTypeRejected ==
    \A p \in Procs :
        (/\ pc[p] = "done"
         /\ notification[p] \in Requests
         /\ notification[p].DeliveryRoute = Email
         /\ notification[p].NotificationType \notin {Instant, Batch}) =>
            /\ Len(responses[p]) = 1
            /\ responses[p][1].code = 400
            /\ sendCalls[p] = <<>>
            /\ mapWrites[p] = <<>>

\* C10: a finished dispatch whose deliveryRoute is neither email nor system
\* has answered 400 (and nothing else), whatever its notificationType, with
\* no sender call, no insert and no queue write.
C10_UnknownRouteRejected ==
    \A p \in Procs :
        (/\ pc[p] = "done"
         /\ notification[p] \in Requests
         /\ notification[p].DeliveryRoute \notin {Email, System}) =>
            /\ responses[p] = <<InvalidType>>
            /\ sendCalls[p] = <<>>
            /\ insertCalls[p] = <<>>
            /\ mapWrites[p] = <<>>

\* C10 witness: "sms" notifications of type batch and of type instant were
\* both answered 400.
C10_Witness ==
    \E p, q \in Procs :
        /\ pc[p] = "done" /\ pc[q] = "done"
        /\ notification[p].DeliveryRoute = "sms" /\ notification[p].NotificationType = Batch
        /\ notification[q].DeliveryRoute = "sms" /\ notification[q].NotificationType = Instant
        /\ responses[p][1].code = 400 /\ responses[q][1].code = 400

\* The schema section 3 of the specification gives the metadata of a route:
\* {emailAddress, emailBody} for email, {uuid, body} for system.
MatchesSchema(route, m) ==
    /\ m.kind = "object"
    /\ route = Email => {"emailAddress", "emailBody"} \subseteq DOMAIN m
    /\ route = System => {"uuid", "body"} \subseteq DOMAIN m

\* C11: a notification whose metadata does not match the schema of its
\* deliveryRoute (email or system) calls no sender, no insert and writes no
\* queue, and is answered 400: email-shaped metadata under system is never
\* inserted, metadata without the email fields under email is never sent or
\* queued.
C11_SchemaMismatchRejected ==
    \A p \in Procs :
        (/\ notification[p] \in Requests
         /\ notification[p].DeliveryRoute \in {Email, System}
         /\ ~MatchesSchema(notification[p].DeliveryRoute, notification[p].Metadata)) =>
            /\ sendCalls[p] = <<>>
            /\ insertCalls[p] = <<>>
            /\ mapWrites[p] = <<>>
            /\ pc[p] = "done"
            /\ Len(responses[p]) = 1
            /\ responses[p][1].code = 400

\* C12: within one dispatch the sender is called at most once and Insert at
\* most once, never both, and a dispatch whose collaborator returned an
\* error has finished with that single call.
C12_NoRetry ==
    \A p \in Procs :
        /\ Len(sendCalls[p]) + Len(insertCalls[p]) <= 1
        /\ (sendResult[p] = "err" \/ insertResult[p] = "err") =>
              /\ pc[p] = "done"
              /\ Len(sendCalls[p]) + Len(insertCalls[p]) = 1

\* C12 witness: one dispatch finished after its only SendEmail call failed,
\* another after its only Insert call failed.
C12_Witness ==
    \E p, q \in Procs :
        /\ pc[p] = "done" /\ sendResult[p] = "err" /\ Len(sendCalls[p]) = 1
        /\ IsBatchEmail(notification[p])
        /\ pc[q] = "done" /\ insertResult[q] = "err" /\ Len(insertCalls[q]) = 1

\* C13: every dispatch runs to completion and reports exactly one outcome:
\* a handler that has started can always take its next step, a handler that
\* has returned has written exactly one response, and no handler ever has
\* written two.
C13_ExactlyOneOutcome ==
    \A p \in Procs :
        /\ Len(responses[p]) <= 1
        /\ pc[p] = "done" => Len(responses[p]) = 1
        /\ InProgress(p) => ENABLED (Step(p) \/ BatchSendPanic(p))

\* The queue key k has when its dispatches run alone, one after another, for
\* the elements appended so far (lines 89-106): with batchAmount = 0 nothing
\* is ever removed; while no send failed, what follows the last full group;
\* after a failed send the failed group and everything after it.
AloneQueue(k) ==
    LET n == Len(arrived[k])
        N == batchAmount
    IN IF N = 0 THEN arrived[k]
       ELSE IF nfail[k] = 0 THEN SubSeq(arrived[k], (n \div N) * N + 1, n)
       ELSE SubSeq(arrived[k], (nflush[k] - 1) * N + 1, n)

\* Some handler is on the batch path of key k.
KeyBusy(k) ==
    \E p \in Procs :
        InProgress(p) /\ IsBatchEmail(notification[p]) /\ notification[p].EventName = k

\* C14: when batch dispatches run concurrently only for distinct keys, a
\* dispatch in progress can always take its next step whatever the handlers
\* of other keys are doing, and whenever no dispatch of key k is in progress
\* the queue of k is the one its own dispatches alone would have left.
C14_DistinctKeysIndependent ==
    /\ \A p \in Procs : InProgress(p) => ENABLED Step(p)
    /\ \A k \in Keys : ~KeyBusy(k) => notificationsMap[k] = AloneQueue(k)

\* C15: the flush clears the queue before the sender is invoked: while the
\* call of line 100 for a flush of key k is outstanding, the queue of k no
\* longer holds the elements being sent (it is empty when dispatches run one
\* after another).
C15_ClearedBeforeSend ==
    \A p \in Procs :
        (pc[p] = "L100wait" /\ IsBatchEmail(notification[p])) =>
            notificationsMap[notification[p].EventName] = <<>>

FrameStep ==
    \A k \in Keys :
        notificationsMap'[k] # notificationsMap[k] =>
            \E p \in Procs :
                /\ IsBatchEmail(notification[p])
                /\ notification[p].EventName = k
                /\ pc[p] \in MapWritePcs
                /\ pc'[p] # pc[p]

\* C17: every step leaves the batch map unchanged except a store of a
\* handler on the email+batch path, which changes the entry of its own
\* EventName only: instant, system and rejected dispatches never change the
\* map, and a batch dispatch for k never changes another key's queue.
C17_MapFrame == [][FrameStep]_vars

\* C17 witness: a batch dispatch for "promo" appended and flushed (two stores
\* at "promo") while the queue of "news" kept its element, and another
\* handler sent an instant email.
C17_Witness ==
    \E p, q \in Procs :
        /\ pc[p] = "done" /\ IsBatchEmail(notification[p])
        /\ mapWrites[p] = <<"promo", "promo">>
        /\ notificationsMap["promo"] = <<>>
        /\ notificationsMap["news"] # <<>>
        /\ pc[q] = "done" /\ IsInstantEmail(notification[q]) /\ sendResult[q] = "ok"

\* C18: with batchAmount >= 1 no queue ever grows past batchAmount (from a
\* longer queue the equality test of line 92 can never succeed again, and
\* the elements of that key are never handed to the sender).
C18_QueueNeverExceedsThreshold ==
    \A k \in Keys :
        batchAmount >= 1 => Len(notificationsMap[k]) <= batchAmount

\* Handler p executes the store of line 89 in this step and the queue it
\* leaves does not reach the threshold (the dispatch accumulates).
AccumulatingStore(p) ==
    /\ pc[p] = "L89w" /\ pc'[p] = "L92"
    /\ ~ThresholdReached(Len(notificationsMap'[notification[p].EventName]))

C19Step ==
    /\ \A p \in Procs :
          (IsBatchEmail(notification[p]) /\ pc'[p] = "done" /\ pc[p] # "done"
              /\ responses'[p] = <<OK>> /\ sendCalls[p] # <<>>) =>
                 sendResult[p] = "ok"
    /\ \A k \in Keys :
          (notificationsMap[k] # <<>> /\ notificationsMap'[k] = <<>>) =>
              \E p \in Procs :
                  /\ pc[p] = "L106" /\ pc'[p] = "done"
                  /\ notification[p].EventName = k
                  /\ sendResult[p] = "ok"
    /\ \A p \in Procs :
          AccumulatingStore(p) =>
              LET k == notification[p].EventName
                  old == notificationsMap[k]
                  new == notificationsMap'[k]
              IN /\ Len(new) = Len(old) + 1
                 /\ SubSeq(new, 1, Len(old)) = old

\* C19: in every step, a flushing dispatch answers 200 only after its send
\* returned without error; a queue becomes empty only by the clear of a
\* dispatch that passed the test of line 92 and whose send succeeded; and
\* the store of an accumulating dispatch leaves every element already in the
\* queue in place and adds one at the end.
C19_AppendOnlyBetweenFlushes == [][C19Step]_vars

====
